---- MODULE Spec2Model ----
(***************************************************************************)
(* Model of api/telegram.py: the per-chat conversation state machine kept  *)
(* in user_sessions, the handlers process_update dispatches to, and the    *)
(* PIN protocol (generate_pin, is_pin_unique, generate_unique_pin,         *)
(* store_file_with_pin, get_file_by_pin) against the Firestore collection. *)
(*                                                                         *)
(* Texts are sequences of one-character strings, so that startswith, "in", *)
(* isdigit, len, split and upper are computed as Python computes them.     *)
(* Several updates may be in flight at once (one task per delivery); a     *)
(* task is interleaved with the others at the points where the handler     *)
(* waits for a collaborator (HTTP request, Firestore call, sleep).         *)
(***************************************************************************)
EXTENDS Integers, Sequences, FiniteSets, TLC

(***************************************************************************)
(* Bounds of the model.                                                    *)
(***************************************************************************)
\* length of the pins in the model: store_file_with_pin calls generate_unique_pin()
\* with its default length, 6 in the source
PinLength == 1
\* largest number of documents the collection holds in the model
MaxRecords == 2
\* number of updates the bot receives in the model
MaxUpdates == 3

(***************************************************************************)
(* Program constants.                                                      *)
(***************************************************************************)
\* generate_unique_pin: max_attempts = 10
max_attempts == 10
\* handle_text_message: len(text) < 10
MinPhoneLen == 10

Chats == {101, 102}
Tasks == {1, 2}

\* Python's None, where a text or a pin is expected
None == <<"None">>

(***************************************************************************)
(* Python string operations on sequences of characters.                    *)
(***************************************************************************)
ascii_uppercase == <<"A","B","C","D","E","F","G","H","I","J","K","L","M",
                     "N","O","P","Q","R","S","T","U","V","W","X","Y","Z">>
ascii_lowercase == <<"a","b","c","d","e","f","g","h","i","j","k","l","m",
                     "n","o","p","q","r","s","t","u","v","w","x","y","z">>
digits == <<"0","1","2","3","4","5","6","7","8","9">>
whitespace == {" ", "\t", "\n"}

Range(s) == {s[i] : i \in DOMAIN s}

\* s.startswith(p)
startswith(s, p) == Len(s) >= Len(p) /\ SubSeq(s, 1, Len(p)) = p

\* p in s
contains(s, p) ==
    \E i \in 1..(Len(s) - Len(p) + 1) : SubSeq(s, i, i + Len(p) - 1) = p

\* s.isdigit(): non-empty and every character a digit
isdigit(s) == Len(s) > 0 /\ \A i \in DOMAIN s : s[i] \in Range(digits)

upper_char(ch) ==
    IF \E i \in DOMAIN ascii_lowercase : ascii_lowercase[i] = ch
    THEN ascii_uppercase[CHOOSE i \in DOMAIN ascii_lowercase : ascii_lowercase[i] = ch]
    ELSE ch

\* s.upper()
upper(s) == [i \in DOMAIN s |-> upper_char(s[i])]

\* s.split()[0] for a text that starts with a non-blank character
first_word(s) ==
    LET blanks == {i \in DOMAIN s : s[i] \in whitespace}
    IN  IF blanks = {} THEN s
        ELSE SubSeq(s, 1, (CHOOSE i \in blanks : \A j \in blanks : i <= j) - 1)


pow64(k) == IF k = 0 THEN 1 ELSE IF k = 1 THEN 64 ELSE IF k = 2 THEN 4096 ELSE 262144

b64chars == ascii_uppercase \o ascii_lowercase \o digits \o <<"+", "/">>

\* base64.b64encode(file_data).decode('utf-8')
b64encode(bytes) ==
    LET n == Len(bytes)
        byte(i) == IF i <= n THEN bytes[i] ELSE 0
        group(g) == byte(3*g + 1) * 65536 + byte(3*g + 2) * 256 + byte(3*g + 3)
    IN  [p \in 1..(4 * ((n + 2) \div 3)) |->
            LET g == (p - 1) \div 4
                k == (p - 1) % 4
            IN  IF 3*g + k > n THEN "="
                ELSE b64chars[((group(g) \div pow64(3 - k)) % 64) + 1]]

b64index(ch) ==
    IF ch = "=" THEN 0
    ELSE (CHOOSE i \in DOMAIN b64chars : b64chars[i] = ch) - 1

\* base64.b64decode(data['file_data'])
b64decode(chars) ==
    LET m == Len(chars)
        pad == Cardinality({i \in DOMAIN chars : chars[i] = "="})
        group(g) == b64index(chars[4*g + 1]) * 262144 + b64index(chars[4*g + 2]) * 4096
                    + b64index(chars[4*g + 3]) * 64 + b64index(chars[4*g + 4])
    IN  [p \in 1..(3 * (m \div 4) - pad) |->
            LET g == (p - 1) \div 3
                k == (p - 1) % 3
            IN  (group(g) \div (IF k = 0 THEN 65536 ELSE IF k = 1 THEN 256 ELSE 1)) % 256]

(***************************************************************************)
(* Inbound updates: the texts and documents the chats send.                *)
(***************************************************************************)
CmdStart       == <<"/","s","t","a","r","t">>
CmdSendmsg     == <<"/","s","e","n","d","m","s","g">>
CmdYtDownload  == <<"/","y","t","_","d","o","w","n","l","o","a","d">>
CmdDownloadUrl == <<"/","d","o","w","n","l","o","a","d","_","u","r","l">>
CmdUploadFile  == <<"/","u","p","l","o","a","d","_","f","i","l","e">>
CmdGetFile     == <<"/","g","e","t","_","f","i","l","e">>
CmdAskAi       == <<"/","a","s","k","_","a","i">>
CmdCancel      == <<"/","c","a","n","c","e","l">>

YoutubeCom == <<"y","o","u","t","u","b","e",".","c","o","m">>
YoutuBe    == <<"y","o","u","t","u",".","b","e">>
Http       == <<"h","t","t","p">>
HttpScheme  == <<"h","t","t","p",":","/","/">>
HttpsScheme == <<"h","t","t","p","s",":","/","/">>

\* commands as users type them, with and without arguments, and one the bot does not know
CommandTexts ==
    { CmdStart, CmdSendmsg, CmdYtDownload, CmdDownloadUrl, CmdUploadFile,
      CmdGetFile, CmdAskAi, CmdCancel,
      CmdCancel \o <<" ", "x">>,
      <<"/","h","e","l","p">> }

TxtPhone    == <<"9","4","7","1","2","3","4","5","6","7">>
TxtYoutube  == HttpsScheme \o YoutuBe \o <<"/","x">>
TxtYtBare   == YoutubeCom \o <<"/","v">>
TxtHttpJunk == Http \o <<"x","y">>

\* one lower-case and one digit spelling of a pin: the first is no phone number
\* and no URL, the second is all digits but too short for a phone number
PinTexts == { [i \in 1..PinLength |-> "a"], [i \in 1..PinLength |-> "0"] }

FreeTexts == { TxtPhone, TxtYoutube, TxtYtBare, TxtHttpJunk } \cup PinTexts

Texts == CommandTexts \cup FreeTexts

\* message["document"]: file_id, file_name (absent in the second one) and the
\* bytes Telegram serves for the file
Documents ==
    { [file_id |-> "f1", file_name |-> <<"a",".","t","x","t">>, content |-> <<77, 97>>],
      [file_id |-> "f2", content |-> <<255>>] }

(***************************************************************************)
(* State.                                                                  *)
(***************************************************************************)
VARIABLES
    user_sessions,     \* the dict user_sessions: chat_id -> session dict
    db,                \* TRUE iff Firebase was initialised (FILES_COLLECTION is not None)
    gemini_client,     \* TRUE iff the Gemini client was initialised
    FILES_COLLECTION,  \* the documents of the Firestore collection, in insertion order
    tasks,             \* one process_update call per task: where it is, and its locals
    last,              \* what the step just taken did: messages sent, calls made
    received           \* number of updates received so far

vars == <<user_sessions, db, gemini_client, FILES_COLLECTION, tasks, last, received>>

Idle == [pc |-> "idle", chat_id |-> 0, text |-> None, phone |-> None,
         filename |-> None, file_data |-> <<>>, length |-> 0, attempt |-> 0,
         checks |-> 0, pin |-> None, fallback |-> FALSE, seen |-> 0]

\* the chat's session as a set: empty when chat_id is not in user_sessions
session_of(sessions, chat_id) ==
    IF chat_id \in DOMAIN sessions THEN {sessions[chat_id]} ELSE {}

\* user_sessions[chat_id] = session
set_session(sessions, chat_id, session) ==
    [c \in DOMAIN sessions \cup {chat_id} |->
        IF c = chat_id THEN session ELSE sessions[c]]

\* mutant of del_session: user_sessions.clear()
del_session_clear(sessions, chat_id) == [c \in {} |-> sessions[c]]

\* del user_sessions[chat_id], for a chat_id that is in the dict
del_session(sessions, chat_id) ==
    [c \in DOMAIN sessions \ {chat_id} |-> sessions[c]]

\* session.get(key)
get(session, key) == IF key \in DOMAIN session THEN session[key] ELSE None

\* the sessions of the chats other than chat_id
others(sessions, chat_id) == [c \in DOMAIN sessions \ {chat_id} |-> sessions[c]]

\* send_telegram_message(chat_id, text): the message handed to the Bot API
message(chat_id, text) == [chat_id |-> chat_id, text |-> text, arg |-> <<>>]
message_with(chat_id, text, arg) == [chat_id |-> chat_id, text |-> text, arg |-> arg]

\* an update is taken by the first task that is not busy with another update
free(w) ==
    /\ received < MaxUpdates
    /\ tasks[w].pc = "idle"
    /\ \A v \in Tasks : v < w => tasks[v].pc # "idle"

\* the step of task w: its new locals, and the record of what the step did
step(w, t, op, chat_id, text, sent, calls, logged) ==
    /\ tasks' = [tasks EXCEPT ![w] = t]
    /\ received' = IF tasks[w].pc = "idle" THEN received + 1 ELSE received
    /\ last' = [task |-> w, op |-> op, chat_id |-> chat_id, text |-> text,
                before |-> session_of(user_sessions, chat_id),
                others |-> others(user_sessions, chat_id),
                records |-> Len(FILES_COLLECTION),
                sent |-> sent, calls |-> calls, logged |-> logged]

Init ==
    /\ user_sessions = [c \in {} |-> Idle]
    /\ db \in BOOLEAN
    /\ gemini_client \in BOOLEAN
    /\ FILES_COLLECTION = <<>>
    /\ tasks = [w \in Tasks |-> Idle]
    /\ received = 0
    /\ last = [task |-> 1, op |-> "init", chat_id |-> 0, text |-> None,
               others |-> others(user_sessions, 0),
               records |-> Len(FILES_COLLECTION),
               before |-> {}, sent |-> <<>>, calls |-> <<>>, logged |-> FALSE]

(***************************************************************************)
(* process_update: routing of a text update.                               *)
(***************************************************************************)
handler_of(text) ==
    IF startswith(text, <<"/">>)
    THEN LET command == first_word(text)
         IN  CASE command = CmdStart       -> "handle_start"
               [] command = CmdSendmsg     -> "handle_sendmsg"
               [] command = CmdYtDownload  -> "handle_yt_download"
               [] command = CmdDownloadUrl -> "handle_download_url"
               [] command = CmdUploadFile  -> "handle_upload_file"
               [] command = CmdGetFile     -> "handle_get_file"
               [] command = CmdAskAi       -> "handle_ask_ai"
               [] command = CmdCancel      -> "handle_cancel"
               [] OTHER                    -> "unknown_command"
    ELSE "handle_text_message"

\* mutant of start_workflow: the keys of the session in progress are updated in
\* place, so the fields it collected stay
start_workflow_update(sessions, chat_id, state, command) ==
    set_session(sessions, chat_id,
        [k \in (IF chat_id \in DOMAIN sessions THEN DOMAIN sessions[chat_id] ELSE {})
                 \cup {"state", "command"} |->
            IF k = "state" THEN state
            ELSE IF k = "command" THEN command ELSE sessions[chat_id][k]])

\* user_sessions[chat_id] = {"state": state, "command": command}
start_workflow(sessions, chat_id, state, command) ==
    set_session(sessions, chat_id, [state |-> state, command |-> command])

\* the six entry commands: the session is replaced, then the prompt is sent
enter(w, chat_id, text, handler, state, command, prompt) ==
    /\ user_sessions' = start_workflow(user_sessions, chat_id, state, command)
    /\ step(w, Idle, handler, chat_id, text, <<message(chat_id, prompt)>>, <<>>, FALSE)
    /\ UNCHANGED <<db, gemini_client, FILES_COLLECTION>>

handle_sendmsg(w, chat_id, text) ==
    /\ free(w)
    /\ handler_of(text) = "handle_sendmsg"
    /\ enter(w, chat_id, text, "handle_sendmsg", "waiting_phone", "sendmsg", "ask_phone")

handle_yt_download(w, chat_id, text) ==
    /\ free(w)
    /\ handler_of(text) = "handle_yt_download"
    /\ enter(w, chat_id, text, "handle_yt_download", "waiting_youtube_url", "yt_download",
             "ask_youtube_url")

handle_download_url(w, chat_id, text) ==
    /\ free(w)
    /\ handler_of(text) = "handle_download_url"
    /\ enter(w, chat_id, text, "handle_download_url", "waiting_download_url", "download_url",
             "ask_download_url")

handle_upload_file(w, chat_id, text) ==
    /\ free(w)
    /\ handler_of(text) = "handle_upload_file"
    /\ enter(w, chat_id, text, "handle_upload_file", "waiting_file_upload", "upload_file",
             "ask_file")

handle_get_file(w, chat_id, text) ==
    /\ free(w)
    /\ handler_of(text) = "handle_get_file"
    /\ enter(w, chat_id, text, "handle_get_file", "waiting_pin", "get_file", "ask_pin")

handle_ask_ai(w, chat_id, text) ==
    /\ free(w)
    /\ handler_of(text) = "handle_ask_ai"
    /\ enter(w, chat_id, text, "handle_ask_ai", "waiting_ai_query", "ask_ai", "ask_query")

\* mutant of handle_start: /start also forgets the session in progress
handle_start_forgets(w, chat_id, text) ==
    /\ free(w)
    /\ handler_of(text) = "handle_start"
    /\ user_sessions' = others(user_sessions, chat_id)
    /\ step(w, Idle, "handle_start", chat_id, text, <<message(chat_id, "welcome")>>, <<>>, FALSE)
    /\ UNCHANGED <<db, gemini_client, FILES_COLLECTION>>

handle_start(w, chat_id, text) ==
    /\ free(w)
    /\ handler_of(text) = "handle_start"
    /\ step(w, Idle, "handle_start", chat_id, text, <<message(chat_id, "welcome")>>, <<>>, FALSE)
    /\ UNCHANGED <<user_sessions, db, gemini_client, FILES_COLLECTION>>

unknown_command(w, chat_id, text) ==
    /\ free(w)
    /\ handler_of(text) = "unknown_command"
    /\ step(w, Idle, "unknown_command", chat_id, text,
            <<message(chat_id, "unknown_command")>>, <<>>, FALSE)
    /\ UNCHANGED <<user_sessions, db, gemini_client, FILES_COLLECTION>>

\* mutant of cancel: the session is removed with pop of a default, which leaves
\* an empty session behind when there was none
cancel_default(sessions, chat_id) ==
    IF chat_id \in DOMAIN sessions THEN del_session(sessions, chat_id)
    ELSE set_session(sessions, chat_id, [state |-> None, command |-> None])

\* the store after handle_cancel
cancel(sessions, chat_id) ==
    IF chat_id \in DOMAIN sessions THEN del_session(sessions, chat_id) ELSE sessions

handle_cancel(w, chat_id, text) ==
    /\ free(w)
    /\ handler_of(text) = "handle_cancel"
    /\ user_sessions' = cancel(user_sessions, chat_id)
    /\ step(w, Idle, "handle_cancel", chat_id, text,
            <<message(chat_id, IF chat_id \in DOMAIN user_sessions
                               THEN "cancelled" ELSE "nothing_to_cancel")>>,
            <<>>, FALSE)
    /\ UNCHANGED <<db, gemini_client, FILES_COLLECTION>>

(***************************************************************************)
(* handle_text_message.                                                    *)
(***************************************************************************)
\* mutant of invalid_phone: "and" in place of "or"
invalid_phone_and(text) == ~isdigit(text) /\ Len(text) < MinPhoneLen

\* not text.isdigit() or len(text) < 10
invalid_phone(text) == ~isdigit(text) \/ Len(text) < MinPhoneLen

\* "youtube.com" in text or "youtu.be" in text
is_youtube_url(text) == contains(text, YoutubeCom) \/ contains(text, YoutuBe)

\* text.startswith("http")
is_download_url(text) == startswith(text, Http)

\* mutant of with_phone: the state advances, the phone number is not stored
with_phone_forgotten(session, text) == [session EXCEPT !.state = "waiting_message"]

\* the session after a valid phone number: session["phone"] = text,
\* session["state"] = "waiting_message"
with_phone(session, text) ==
    [k \in DOMAIN session \cup {"phone"} |->
        IF k = "phone" THEN text
        ELSE IF k = "state" THEN "waiting_message" ELSE session[k]]

\* mutant of text_wait: a text received in waiting_file_upload ends the workflow
text_wait_upload_ends(command, state, text) ==
    CASE command = "sendmsg" /\ state = "waiting_message" -> "send_message_via_api"
      [] command = "yt_download" /\ state = "waiting_youtube_url" ->
            IF is_youtube_url(text) THEN "download_youtube_video" ELSE "invalid_url"
      [] command = "download_url" /\ state = "waiting_download_url" ->
            IF is_download_url(text) THEN "download_file_from_url" ELSE "invalid_url"
      [] command = "get_file" /\ state = "waiting_pin" -> "get_file_by_pin"
      [] command = "ask_ai" /\ state = "waiting_ai_query" -> "ask_gemini_ai"
      [] command = "upload_file" -> "invalid_url"
      [] OTHER -> "idle"

\* mutant of text_wait: the relay is called for any text of a /sendmsg session
text_wait_any_state(command, state, text) ==
    CASE command = "sendmsg" -> "send_message_via_api"
      [] command = "yt_download" /\ state = "waiting_youtube_url" ->
            IF is_youtube_url(text) THEN "download_youtube_video" ELSE "invalid_url"
      [] command = "download_url" /\ state = "waiting_download_url" ->
            IF is_download_url(text) THEN "download_file_from_url" ELSE "invalid_url"
      [] command = "get_file" /\ state = "waiting_pin" -> "get_file_by_pin"
      [] command = "ask_ai" /\ state = "waiting_ai_query" -> "ask_gemini_ai"
      [] OTHER -> "idle"

\* where handle_text_message waits next, by (command, state) and text; "idle" when
\* it returns without waiting
text_wait(command, state, text) ==
    CASE command = "sendmsg" /\ state = "waiting_message" -> "send_message_via_api"
      [] command = "yt_download" /\ state = "waiting_youtube_url" ->
            IF is_youtube_url(text) THEN "download_youtube_video" ELSE "invalid_url"
      [] command = "download_url" /\ state = "waiting_download_url" ->
            IF is_download_url(text) THEN "download_file_from_url" ELSE "invalid_url"
      [] command = "get_file" /\ state = "waiting_pin" -> "get_file_by_pin"
      [] command = "ask_ai" /\ state = "waiting_ai_query" -> "ask_gemini_ai"
      [] OTHER -> "idle"

\* what handle_text_message sends before it waits or returns
text_reply(chat_id, command, state, text) ==
    CASE command = "sendmsg" /\ state = "waiting_phone" ->
            IF invalid_phone(text) THEN <<message(chat_id, "invalid_phone")>>
            ELSE <<message(chat_id, "ask_message")>>
      [] command = "sendmsg" /\ state = "waiting_message" -> <<message(chat_id, "sending")>>
      [] command = "yt_download" /\ state = "waiting_youtube_url" ->
            IF is_youtube_url(text) THEN <<message(chat_id, "downloading_video")>>
            ELSE <<message(chat_id, "invalid_youtube_url")>>
      [] command = "download_url" /\ state = "waiting_download_url" ->
            IF is_download_url(text) THEN <<message(chat_id, "downloading_file")>>
            ELSE <<message(chat_id, "invalid_url")>>
      [] OTHER -> <<>>

\* the text the handler still uses after its first wait
kept_text(wait, text) ==
    IF wait \in {"send_message_via_api", "get_file_by_pin"} THEN text ELSE None

handle_text_message(w, chat_id, text) ==
    /\ free(w)
    /\ handler_of(text) = "handle_text_message"
    /\ UNCHANGED <<db, gemini_client, FILES_COLLECTION>>
    /\ IF chat_id \notin DOMAIN user_sessions
       THEN /\ UNCHANGED user_sessions
            /\ step(w, Idle, "handle_text_message", chat_id, text,
                    <<message(chat_id, "use_command")>>, <<>>, FALSE)
       ELSE LET session == user_sessions[chat_id]
                state == get(session, "state")
                command == get(session, "command")
                wait == text_wait(command, state, text)
            IN  /\ user_sessions' =
                      IF command = "sendmsg" /\ state = "waiting_phone" /\ ~invalid_phone(text)
                      THEN set_session(user_sessions, chat_id, with_phone(session, text))
                      ELSE user_sessions
                /\ step(w,
                        IF wait = "idle" THEN Idle
                        ELSE [Idle EXCEPT !.pc = wait, !.chat_id = chat_id,
                                          !.text = kept_text(wait, text),
                                          !.phone = get(session, "phone")],
                        "handle_text_message", chat_id, text,
                        text_reply(chat_id, command, state, text), <<>>, FALSE)

\* del user_sessions[chat_id] as the last statement of handle_text_message: a
\* KeyError leaves the handler and is logged by process_update
finish(w, op, sent, calls) ==
    LET chat_id == tasks[w].chat_id
    IN  IF chat_id \in DOMAIN user_sessions
        THEN /\ user_sessions' = del_session(user_sessions, chat_id)
             /\ step(w, Idle, op, chat_id, tasks[w].text, sent, calls, FALSE)
        ELSE /\ UNCHANGED user_sessions
             /\ step(w, Idle, op, chat_id, tasks[w].text, sent, calls, TRUE)

\* success = await send_message_via_api(phone, text); the result message; del
send_message_via_api(w) ==
    /\ tasks[w].pc = "send_message_via_api"
    /\ UNCHANGED <<db, gemini_client, FILES_COLLECTION>>
    /\ \E success \in BOOLEAN :
          finish(w, "send_message_via_api",
                 <<message(tasks[w].chat_id,
                           IF success THEN "message_sent" ELSE "message_failed")>>,
                 <<[fn |-> "send_message_via_api", number |-> tasks[w].phone,
                    message_text |-> tasks[w].text, result |-> success]>>)

\* the reply for an invalid URL was sent; del
invalid_url(w) ==
    /\ tasks[w].pc = "invalid_url"
    /\ UNCHANGED <<db, gemini_client, FILES_COLLECTION>>
    /\ finish(w, "invalid_url", <<>>, <<>>)

\* what download_youtube_video sends after its first message, by what yt_dlp and
\* the Bot API did
video_messages(chat_id, outcome) ==
    CASE outcome = "sent"        -> <<message(chat_id, "document"), message(chat_id, "video_sent")>>
      [] outcome = "send_failed" -> <<message(chat_id, "document"), message(chat_id, "video_send_failed")>>
      [] outcome = "too_large"   -> <<message(chat_id, "video_too_large")>>
      [] outcome = "no_file"     -> <<message(chat_id, "video_download_failed")>>
      [] outcome = "error"       -> <<message(chat_id, "video_error")>>

download_youtube_video(w) ==
    /\ tasks[w].pc = "download_youtube_video"
    /\ UNCHANGED <<db, gemini_client, FILES_COLLECTION>>
    /\ \E outcome \in {"sent", "send_failed", "too_large", "no_file", "error"} :
          finish(w, "download_youtube_video", video_messages(tasks[w].chat_id, outcome),
                 <<[fn |-> "download_youtube_video", result |-> outcome = "sent"]>>)

file_messages(chat_id, outcome) ==
    CASE outcome = "sent"        -> <<message(chat_id, "document"), message(chat_id, "file_sent")>>
      [] outcome = "send_failed" -> <<message(chat_id, "document"), message(chat_id, "file_send_failed")>>
      [] outcome = "too_large"   -> <<message(chat_id, "file_too_large")>>
      [] outcome = "error"       -> <<message(chat_id, "file_download_error")>>

download_file_from_url(w) ==
    /\ tasks[w].pc = "download_file_from_url"
    /\ UNCHANGED <<db, gemini_client, FILES_COLLECTION>>
    /\ \E outcome \in {"sent", "send_failed", "too_large", "error"} :
          finish(w, "download_file_from_url", file_messages(tasks[w].chat_id, outcome),
                 <<[fn |-> "download_file_from_url", result |-> outcome = "sent"]>>)

\* ask_gemini_ai(text), then the answer is sent; del
ask_gemini_ai(w) ==
    /\ tasks[w].pc = "ask_gemini_ai"
    /\ UNCHANGED <<db, gemini_client, FILES_COLLECTION>>
    /\ \E outcome \in (IF gemini_client THEN {"ai_text", "ai_empty", "ai_error"}
                       ELSE {"ai_unavailable"}) :
          finish(w, "ask_gemini_ai",
                 <<message(tasks[w].chat_id, outcome)>>,
                 IF gemini_client
                 THEN <<[fn |-> "generate_content"]>>
                 ELSE <<>>)

\* mutant of docs_with_pin: the query without its where clause
docs_with_pin_any(collection, pin) == DOMAIN collection

\* the documents of the collection query.get() may return for where('pin', '==', pin)
docs_with_pin(collection, pin) == {i \in DOMAIN collection : collection[i].pin = pin}

\* get_file_by_pin(text.upper()), delivery of the document, del
get_file_by_pin(w) ==
    /\ tasks[w].pc = "get_file_by_pin"
    /\ UNCHANGED <<db, gemini_client, FILES_COLLECTION>>
    /\ LET chat_id == tasks[w].chat_id
           pin == upper(tasks[w].text)
           call(answer) == <<[fn |-> "get_file_by_pin", pin |-> pin, answer |-> answer]>>
           not_found == <<message(chat_id, "pin_not_found")>>
       IN  \/ /\ ~db
              /\ finish(w, "get_file_by_pin", not_found, <<>>)
           \/ /\ db
              /\ finish(w, "get_file_by_pin", not_found, call("error"))
           \/ /\ db
              /\ docs_with_pin(FILES_COLLECTION, pin) = {}
              /\ finish(w, "get_file_by_pin", not_found, call("absent"))
           \/ /\ db
              /\ \E i \in docs_with_pin(FILES_COLLECTION, pin), success \in BOOLEAN :
                    finish(w, "get_file_by_pin",
                           <<message_with(chat_id, "document",
                                          <<b64decode(FILES_COLLECTION[i].file_data),
                                            FILES_COLLECTION[i].filename>>),
                             message(chat_id, IF success THEN "file_sent" ELSE "file_send_failed")>>,
                           <<[fn |-> "get_file_by_pin", pin |-> pin, answer |-> "found",
                              data |-> FILES_COLLECTION[i]]>>)

(***************************************************************************)
(* The PIN protocol.                                                       *)
(***************************************************************************)
characters == ascii_uppercase \o digits

\* the characters random.choice(characters) is seen to return in the model
RandomChars == {"A", "0"}

\* generate_pin(length): the pins it may return
generate_pin(length) == [1..length -> RandomChars]

\* mutant of is_pin_unique: without Firestore every pin counts as unique
is_pin_unique_unchecked(initialised, collection, pin, raised) ==
    IF ~initialised THEN TRUE
    ELSE IF raised THEN FALSE
    ELSE docs_with_pin(collection, pin) = {}

\* mutant of is_pin_unique: the except clause returns True
is_pin_unique_fails_open(initialised, collection, pin, raised) ==
    IF ~initialised THEN FALSE
    ELSE IF raised THEN TRUE
    ELSE docs_with_pin(collection, pin) = {}

\* is_pin_unique(pin), where raised says whether query.get() raised
is_pin_unique(initialised, collection, pin, raised) ==
    IF ~initialised THEN FALSE
    ELSE IF raised THEN FALSE
    ELSE docs_with_pin(collection, pin) = {}

\* mutant of after_attempt: range(max_attempts + 1), one attempt too many
after_attempt_one_more(t, pin, unique, queried, next_pin, ndocs) ==
    LET counted == [t EXCEPT !.checks = t.checks + (IF queried THEN 1 ELSE 0)]
    IN  IF unique
        THEN [counted EXCEPT !.pc = "add", !.pin = pin, !.seen = ndocs]
        ELSE IF t.attempt < max_attempts + 1
        THEN [counted EXCEPT !.attempt = t.attempt + 1]
        ELSE [counted EXCEPT !.pc = "add", !.pin = next_pin, !.fallback = TRUE]

\* mutant of after_attempt: range(max_attempts - 1), the loop gives up one attempt early
after_attempt_early(t, pin, unique, queried, next_pin, ndocs) ==
    LET counted == [t EXCEPT !.checks = t.checks + (IF queried THEN 1 ELSE 0)]
    IN  IF unique
        THEN [counted EXCEPT !.pc = "add", !.pin = pin, !.seen = ndocs]
        ELSE IF t.attempt < max_attempts - 1
        THEN [counted EXCEPT !.attempt = t.attempt + 1]
        ELSE [counted EXCEPT !.pc = "add", !.pin = next_pin, !.fallback = TRUE]

\* the locals of generate_unique_pin after the attempt that drew pin and got the
\* answer unique; next_pin is what generate_pin returns if the loop is over.
\* checks counts the queries made; seen is a history variable: the number of
\* documents the collection held when the returned pin was found unique
after_attempt(t, pin, unique, queried, next_pin, ndocs) ==
    LET counted == [t EXCEPT !.checks = t.checks + (IF queried THEN 1 ELSE 0)]
    IN  IF unique
        THEN [counted EXCEPT !.pc = "add", !.pin = pin, !.seen = ndocs]
        ELSE IF t.attempt < max_attempts
        THEN [counted EXCEPT !.attempt = t.attempt + 1]
        ELSE [counted EXCEPT !.pc = "add", !.pin = next_pin, !.fallback = TRUE]

\* what generate_unique_pin hands back to store_file_with_pin: its own locals
\* (attempt, checks) end with the call
returned(t) == [t EXCEPT !.attempt = 0, !.checks = 0]

\* one pass of the loop of generate_unique_pin: draw, check, return or sleep
generate_unique_pin(w) ==
    /\ tasks[w].pc = "generate_unique_pin"
    /\ UNCHANGED <<user_sessions, db, gemini_client, FILES_COLLECTION>>
    /\ \E pin \in generate_pin(tasks[w].length),
          raised \in (IF db THEN BOOLEAN ELSE {FALSE}) :
          LET unique == is_pin_unique(db, FILES_COLLECTION, pin, raised)
              answer == IF ~db THEN "uninitialised"
                        ELSE IF raised THEN "error"
                        ELSE IF unique THEN "unique" ELSE "taken"
              over == ~unique /\ tasks[w].attempt >= max_attempts
          IN  \E next_pin \in (IF over THEN generate_pin(tasks[w].length) ELSE {None}) :
              LET t == after_attempt(tasks[w], pin, unique, db, next_pin,
                                     Len(FILES_COLLECTION))
                  check == [fn |-> "is_pin_unique", pin |-> pin, answer |-> answer]
              IN  IF t.pc = "add"
                  THEN step(w, returned(t), "generate_unique_pin", t.chat_id, None, <<>>,
                            <<check, [fn |-> "generate_unique_pin", pin |-> t.pin,
                                      length |-> t.length, attempts |-> t.attempt,
                                      checks |-> t.checks, fallback |-> t.fallback]>>,
                            FALSE)
                  ELSE step(w, t, "generate_unique_pin", t.chat_id, None, <<>>,
                            <<check>>, FALSE)

(***************************************************************************)
(* handle_document.                                                        *)
(***************************************************************************)
DefaultFileName == <<"d","o","c","u","m","e","n","t">>

handle_document(w, chat_id, doc) ==
    /\ free(w)
    /\ UNCHANGED <<user_sessions, db, gemini_client, FILES_COLLECTION>>
    /\ IF \/ chat_id \notin DOMAIN user_sessions
          \/ get(user_sessions[chat_id], "state") # "waiting_file_upload"
       THEN step(w, Idle, "handle_document", chat_id, None,
                 <<message(chat_id, "use_upload_file")>>, <<>>, FALSE)
       ELSE step(w, [Idle EXCEPT !.pc = "requests_get", !.chat_id = chat_id,
                                 !.filename = IF "file_name" \in DOMAIN doc
                                              THEN doc.file_name ELSE DefaultFileName,
                                 !.file_data = doc.content],
                 "handle_document", chat_id, None, <<>>, <<>>, FALSE)

\* the outcome message was sent; del user_sessions[chat_id] inside the try block:
\* a KeyError is caught by the except clause, which sends the failure message
reply_and_del(w, op, sent, calls) ==
    LET chat_id == tasks[w].chat_id
    IN  IF chat_id \in DOMAIN user_sessions
        THEN /\ user_sessions' = del_session(user_sessions, chat_id)
             /\ step(w, Idle, op, chat_id, None, sent, calls, FALSE)
        ELSE /\ UNCHANGED user_sessions
             /\ step(w, [tasks[w] EXCEPT !.pc = "except_del"], op, chat_id, None,
                     sent \o <<message(chat_id, "upload_failed")>>, calls, FALSE)

\* getFile and the download of the file from Telegram, up to store_file_with_pin
requests_get(w) ==
    /\ tasks[w].pc = "requests_get"
    /\ UNCHANGED <<db, gemini_client, FILES_COLLECTION>>
    /\ LET chat_id == tasks[w].chat_id
       IN  \/ \* file_info.get("ok") is false: the message, and return
              /\ UNCHANGED user_sessions
              /\ step(w, Idle, "requests_get", chat_id, None,
                      <<message(chat_id, "file_info_error")>>,
                      <<[fn |-> "requests_get", answer |-> "not_ok"]>>, FALSE)
           \/ \* a request raised: the except clause sends the failure message
              /\ UNCHANGED user_sessions
              /\ step(w, [tasks[w] EXCEPT !.pc = "except_del"], "requests_get", chat_id, None,
                      <<message(chat_id, "upload_failed")>>,
                      <<[fn |-> "requests_get", answer |-> "raised"]>>, FALSE)
           \/ \* store_file_with_pin returns None at once: Firestore not initialised
              /\ ~db
              /\ reply_and_del(w, "requests_get", <<message(chat_id, "upload_failed")>>,
                               <<[fn |-> "requests_get", answer |-> "ok"]>>)
           \/ \* store_file_with_pin calls generate_unique_pin()
              /\ db
              /\ UNCHANGED user_sessions
              /\ step(w, [tasks[w] EXCEPT !.pc = "generate_unique_pin", !.attempt = 1,
                                          !.length = PinLength],
                      "requests_get", chat_id, None, <<>>,
                      <<[fn |-> "requests_get", answer |-> "ok"]>>, FALSE)

\* mutant of doc_data: the uploading chat is not recorded
doc_data_no_owner(pin, filename, file_data, chat_id) ==
    [pin |-> pin, filename |-> filename, file_data |-> b64encode(file_data),
     chat_id |-> 0]

\* doc_data of store_file_with_pin
doc_data(pin, filename, file_data, chat_id) ==
    [pin |-> pin, filename |-> filename, file_data |-> b64encode(file_data),
     chat_id |-> chat_id]

\* FILES_COLLECTION.add(doc_data), the outcome message, del
add(w) ==
    /\ tasks[w].pc = "add"
    /\ UNCHANGED <<db, gemini_client>>
    /\ LET t == tasks[w]
           record == doc_data(t.pin, t.filename, t.file_data, t.chat_id)
       IN  \/ /\ Len(FILES_COLLECTION) < MaxRecords
              /\ FILES_COLLECTION' = Append(FILES_COLLECTION, record)
              /\ reply_and_del(w, "add", <<message_with(t.chat_id, "upload_ok", t.pin)>>,
                               <<[fn |-> "add", doc_data |-> record, answer |-> "ok",
                                  fallback |-> t.fallback, seen |-> t.seen]>>)
           \/ /\ UNCHANGED FILES_COLLECTION
              /\ reply_and_del(w, "add", <<message(t.chat_id, "upload_failed")>>,
                               <<[fn |-> "add", doc_data |-> record, answer |-> "raised",
                                  fallback |-> t.fallback, seen |-> t.seen]>>)

\* del user_sessions[chat_id] in the except clause of handle_document: a KeyError
\* leaves the handler and is logged by process_update
except_del(w) ==
    /\ tasks[w].pc = "except_del"
    /\ UNCHANGED <<db, gemini_client, FILES_COLLECTION>>
    /\ LET chat_id == tasks[w].chat_id
       IN  IF chat_id \in DOMAIN user_sessions
           THEN /\ user_sessions' = del_session(user_sessions, chat_id)
                /\ step(w, Idle, "except_del", chat_id, None, <<>>, <<>>, FALSE)
           ELSE /\ UNCHANGED user_sessions
                /\ step(w, Idle, "except_del", chat_id, None, <<>>, <<>>, TRUE)

(***************************************************************************)
(* The bot: any task takes the next update of any chat, or goes on.        *)
(***************************************************************************)
\* a text update of a chat, routed by process_update
text_update(w, chat_id, text) ==
    \/ handle_start(w, chat_id, text)
    \/ handle_sendmsg(w, chat_id, text)
    \/ handle_yt_download(w, chat_id, text)
    \/ handle_download_url(w, chat_id, text)
    \/ handle_upload_file(w, chat_id, text)
    \/ handle_get_file(w, chat_id, text)
    \/ handle_ask_ai(w, chat_id, text)
    \/ handle_cancel(w, chat_id, text)
    \/ unknown_command(w, chat_id, text)
    \/ handle_text_message(w, chat_id, text)

\* a handler of a text update goes on after the call it waited for
text_continue(w) ==
    \/ send_message_via_api(w)
    \/ invalid_url(w)
    \/ download_youtube_video(w)
    \/ download_file_from_url(w)
    \/ get_file_by_pin(w)
    \/ ask_gemini_ai(w)

\* handle_document goes on after the call it waited for
document_continue(w) ==
    \/ requests_get(w)
    \/ generate_unique_pin(w)
    \/ add(w)
    \/ except_del(w)

Next ==
    \E w \in Tasks :
        \/ \E chat_id \in Chats, text \in Texts : text_update(w, chat_id, text)
        \/ \E chat_id \in Chats, doc \in Documents : handle_document(w, chat_id, doc)
        \/ text_continue(w)
        \/ document_continue(w)

Spec == Init /\ [][Next]_vars

(***************************************************************************)
(* The bot when the chats send texts only.                                 *)
(***************************************************************************)
NextChat ==
    \E w \in Tasks :
        \/ \E chat_id \in Chats, text \in Texts : text_update(w, chat_id, text)
        \/ text_continue(w)

SpecChat == Init /\ [][NextChat]_vars

(***************************************************************************)
(* generate_unique_pin alone: called with a length, against a collection   *)
(* that holds no document, one document, or a document for every pin of    *)
(* that length, and with Firestore initialised or not.                     *)
(***************************************************************************)
RECURSIVE collection_of(_, _)
collection_of(pins, chat_id) ==
    IF pins = {} THEN <<>>
    ELSE LET pin == CHOOSE p \in pins : TRUE
         IN  <<doc_data(pin, DefaultFileName, <<77>>, chat_id)>>
                 \o collection_of(pins \ {pin}, chat_id)

PinLengths == {PinLength, PinLength + 1}

InitPin ==
    /\ user_sessions = [c \in {101} |-> [state |-> "waiting_file_upload", command |-> "upload_file"]]
    /\ db \in BOOLEAN
    /\ gemini_client = TRUE
    /\ \E length \in PinLengths :
          /\ FILES_COLLECTION \in
                {collection_of(pins, 102) :
                    pins \in {{}, generate_pin(length)} \cup {{p} : p \in generate_pin(length)}}
          /\ tasks = [w \in Tasks |->
                        IF w = 1
                        THEN [Idle EXCEPT !.pc = "generate_unique_pin", !.chat_id = 101,
                                          !.filename = DefaultFileName, !.file_data = <<77>>,
                                          !.length = length, !.attempt = 1]
                        ELSE Idle]
    /\ received = 1
    /\ last = [task |-> 1, op |-> "init", chat_id |-> 101, text |-> None,
               others |-> others(user_sessions, 101),
               records |-> Len(FILES_COLLECTION),
               before |-> {}, sent |-> <<>>, calls |-> <<>>, logged |-> FALSE]

NextPin == generate_unique_pin(1)

SpecPin == InitPin /\ [][NextPin]_vars

\* the event loop resumes the coroutine after each await
FairSpecPin == SpecPin /\ WF_vars(NextPin)

(***************************************************************************)
(* Uploads: Firestore, when it is initialised, may hold a document stored  *)
(* earlier, the chats have sent /upload_file, and they send the document   *)
(* that carries a file name.                                               *)
(***************************************************************************)
NamedDocuments == {doc \in Documents : "file_name" \in DOMAIN doc}

InitFiles ==
    /\ user_sessions = [c \in Chats |->
                            [state |-> "waiting_file_upload", command |-> "upload_file"]]
    /\ db \in BOOLEAN
    /\ gemini_client = TRUE
    /\ FILES_COLLECTION \in {<<>>} \cup
          (IF db THEN {collection_of({[i \in 1..PinLength |-> "A"]}, 102)} ELSE {})
    /\ tasks = [w \in Tasks |-> Idle]
    /\ received = 0
    /\ last = [task |-> 1, op |-> "init", chat_id |-> 0, text |-> None,
               others |-> others(user_sessions, 0),
               records |-> Len(FILES_COLLECTION),
               before |-> {}, sent |-> <<>>, calls |-> <<>>, logged |-> FALSE]

NextFiles ==
    \E w \in Tasks :
        \/ \E chat_id \in Chats, doc \in NamedDocuments : handle_document(w, chat_id, doc)
        \/ document_continue(w)

SpecFiles == InitFiles /\ [][NextFiles]_vars

(***************************************************************************)
(* The bot when the chats send texts only, Firestore is initialised and    *)
(* may hold a document that chat 102 stored earlier.                       *)
(***************************************************************************)
InitLookup ==
    /\ user_sessions = [c \in {} |-> Idle]
    /\ db = TRUE
    /\ gemini_client = TRUE
    /\ FILES_COLLECTION \in {<<>>, collection_of({[i \in 1..PinLength |-> "A"]}, 102)}
    /\ tasks = [w \in Tasks |-> Idle]
    /\ received = 0
    /\ last = [task |-> 1, op |-> "init", chat_id |-> 0, text |-> None,
               others |-> others(user_sessions, 0),
               records |-> Len(FILES_COLLECTION),
               before |-> {}, sent |-> <<>>, calls |-> <<>>, logged |-> FALSE]

SpecLookup == InitLookup /\ [][NextChat]_vars

(***************************************************************************)
(* The bot when every chat is at some step of a workflow or has no         *)
(* session, Firestore is not initialised, and the chats send texts that    *)
(* are no commands, and documents.                                         *)
(***************************************************************************)
Sessions ==
    { [state |-> "waiting_phone", command |-> "sendmsg"],
      [state |-> "waiting_message", command |-> "sendmsg", phone |-> TxtPhone],
      [state |-> "waiting_youtube_url", command |-> "yt_download"],
      [state |-> "waiting_download_url", command |-> "download_url"],
      [state |-> "waiting_file_upload", command |-> "upload_file"],
      [state |-> "waiting_pin", command |-> "get_file"],
      [state |-> "waiting_ai_query", command |-> "ask_ai"] }

InitInputs ==
    /\ \E chats \in SUBSET Chats : user_sessions \in [chats -> Sessions]
    /\ db = FALSE
    /\ gemini_client \in BOOLEAN
    /\ FILES_COLLECTION = <<>>
    /\ tasks = [w \in Tasks |-> Idle]
    /\ received = 0
    /\ last = [task |-> 1, op |-> "init", chat_id |-> 0, text |-> None,
               others |-> others(user_sessions, 0),
               records |-> Len(FILES_COLLECTION),
               before |-> {}, sent |-> <<>>, calls |-> <<>>, logged |-> FALSE]

NextInputs ==
    \E w \in Tasks :
        \/ \E chat_id \in Chats, text \in FreeTexts : handle_text_message(w, chat_id, text)
        \/ \E chat_id \in Chats, doc \in Documents : handle_document(w, chat_id, doc)
        \/ text_continue(w)
        \/ requests_get(w)
        \/ except_del(w)

SpecInputs == InitInputs /\ [][NextInputs]_vars

(***************************************************************************)
(* Properties.  last describes the step just taken: the task, the handler  *)
(* or continuation (op), the chat, the session the chat had before the     *)
(* step (before), the messages sent and the collaborator calls made.       *)
(***************************************************************************)
now == session_of(user_sessions, last.chat_id)
ended == tasks[last.task].pc = "idle"

\* the continuations that belong to the terminal action of a workflow
TerminalOps == {"send_message_via_api", "download_youtube_video", "download_file_from_url",
                "get_file_by_pin", "ask_gemini_ai", "requests_get", "generate_unique_pin",
                "add", "except_del"}

\* C1: once an update of a chat has reached the terminal action of its workflow,
\* the chat has no session when the processing of that update ends, whatever the
\* collaborator answered.
AlwaysClears == (last.op \in TerminalOps /\ ended) => now = {}

\* C2: an invalid URL in video-download or url-download leaves the session as it
\* was (same command, state and fields) when the processing of the text ends, and
\* a text without an http:// or https:// scheme (resp. without youtube.com or
\* youtu.be) never starts a fetch.
has_scheme(text) == startswith(text, HttpScheme) \/ startswith(text, HttpsScheme)
names_youtube(text) == contains(text, YoutubeCom) \/ contains(text, YoutuBe)
UrlValidationStateLocal ==
    /\ (last.op = "invalid_url" /\ last.before # {}) => now = last.before
    /\ \A s \in last.before :
          /\ last.op = "handle_text_message"
          /\ \/ s.command = "download_url" /\ s.state = "waiting_download_url"
                   /\ ~has_scheme(last.text)
             \/ s.command = "yt_download" /\ s.state = "waiting_youtube_url"
                   /\ ~names_youtube(last.text)
          => /\ now = last.before
             /\ tasks[last.task].pc \notin {"download_file_from_url", "download_youtube_video"}

\* C3: in send-message awaiting-recipient a text advances the session to
\* awaiting-body, stored as the recipient, iff it is all digits and at least 10
\* characters long; any other text is answered with the re-prompt and leaves the
\* session in awaiting-recipient with no recipient stored.
all_digits(text) ==
    /\ text # <<>>
    /\ \A i \in DOMAIN text : text[i] \in {"0","1","2","3","4","5","6","7","8","9"}
awaiting_recipient == [state |-> "waiting_phone", command |-> "sendmsg"]
RecipientValidation ==
    (last.op = "handle_text_message" /\ last.before = {awaiting_recipient}) =>
        IF all_digits(last.text) /\ Len(last.text) >= 10
        THEN /\ now = {[state |-> "waiting_message", command |-> "sendmsg",
                        phone |-> last.text]}
             /\ last.sent = <<message(last.chat_id, "ask_message")>>
        ELSE /\ now = {awaiting_recipient}
             /\ last.sent = <<message(last.chat_id, "invalid_phone")>>
             /\ ended

\* a text that is all digits but too short was refused in awaiting-recipient
RecipientRefused ==
    /\ last.op = "handle_text_message"
    /\ last.before = {awaiting_recipient}
    /\ all_digits(last.text) /\ Len(last.text) < 10
    /\ now = {awaiting_recipient}

\* C4: an entry command leaves the chat with a session of the new workflow in its
\* initial state and with no fields, whatever session the chat had before.
InitialSession ==
    [handle_sendmsg      |-> [state |-> "waiting_phone", command |-> "sendmsg"],
     handle_yt_download  |-> [state |-> "waiting_youtube_url", command |-> "yt_download"],
     handle_download_url |-> [state |-> "waiting_download_url", command |-> "download_url"],
     handle_upload_file  |-> [state |-> "waiting_file_upload", command |-> "upload_file"],
     handle_get_file     |-> [state |-> "waiting_pin", command |-> "get_file"],
     handle_ask_ai       |-> [state |-> "waiting_ai_query", command |-> "ask_ai"]]
CommandOverridesWorkflow ==
    last.op \in DOMAIN InitialSession => now = {InitialSession[last.op]}

\* an entry command came for a chat whose /sendmsg session had collected a recipient
CommandOverrodeRecipient ==
    /\ last.op \in DOMAIN InitialSession
    /\ \E s \in last.before : "phone" \in DOMAIN s
    /\ now = {InitialSession[last.op]}

\* C5: /cancel removes the session and answers "cancelled" when there was one,
\* answers "nothing to cancel" when there was none, never creates a session, and a
\* second /cancel leaves the store as the first one left it.
IdempotentCancel ==
    /\ last.op = "handle_cancel" =>
          /\ now = {}
          /\ last.sent = <<message(last.chat_id, IF last.before # {} THEN "cancelled"
                                                 ELSE "nothing_to_cancel")>>
    /\ \A c \in Chats :
          LET once == cancel(user_sessions, c)
          IN  /\ c \notin DOMAIN once
              /\ cancel(once, c) = once
              /\ \A d \in Chats \ {c} : session_of(once, d) = session_of(user_sessions, d)

\* /cancel came for a chat that had no session, after an earlier update
CancelledNothing ==
    /\ last.op = "handle_cancel"
    /\ last.before = {}
    /\ last.sent = <<message(last.chat_id, "nothing_to_cancel")>>
    /\ received >= 2

\* C9: an entry command whose collaborator was never initialised answers "service
\* unavailable" and leaves the chat without a session.
ConfigurationErrorNoSession ==
    \/ last.op \in {"handle_upload_file", "handle_get_file"} /\ ~db
    \/ last.op = "handle_ask_ai" /\ ~gemini_client
    => /\ now = {}
       /\ last.sent = <<message(last.chat_id, "service_unavailable")>>

\* C10: no step that reads, writes or deletes the session of a chat is taken while
\* another update of the same chat is between its read and its delete.
SessionOps == {"handle_sendmsg", "handle_yt_download", "handle_download_url",
               "handle_upload_file", "handle_get_file", "handle_ask_ai", "handle_cancel",
               "handle_text_message", "handle_document", "send_message_via_api",
               "invalid_url", "download_youtube_video", "download_file_from_url",
               "get_file_by_pin", "ask_gemini_ai", "requests_get", "add", "except_del"}
PerChatSerialization ==
    last.op \in SessionOps =>
        \A v \in Tasks \ {last.task} :
            tasks[v].pc # "idle" => tasks[v].chat_id # last.chat_id

\* C6: generate_unique_pin returns, after at most 10 uniqueness checks, a pin of
\* the length asked for over A-Z and 0-9, whatever the collaborator answers, and it
\* returns the candidate at once when the check confirms it.
PinAlphabet == Range(ascii_uppercase) \cup Range(digits)
pin_returned == last.op = "generate_unique_pin" /\ Len(last.calls) = 2
PinReturned == tasks[1].pc = "add"
PinWithinBound ==
    /\ \A w \in Tasks : tasks[w].checks <= 10
    /\ pin_returned =>
          /\ last.calls[2].checks <= 10
          /\ Len(last.calls[2].pin) = last.calls[2].length
          /\ \A i \in 1..Len(last.calls[2].pin) : last.calls[2].pin[i] \in PinAlphabet
          /\ tasks[last.task].pin = last.calls[2].pin
    /\ (last.op = "generate_unique_pin" /\ last.calls[1].answer = "unique") =>
          /\ pin_returned
          /\ last.calls[2].pin = last.calls[1].pin
          /\ ~last.calls[2].fallback
PinTotality == []PinWithinBound /\ <>PinReturned

\* the generator returned after ten checks, none of which confirmed a candidate
PinReturnedAfterTenChecks ==
    /\ pin_returned
    /\ last.calls[2].fallback
    /\ last.calls[2].checks = 10

\* C7 as claimed: the pin returned by the fallback is the candidate of the 10th
\* attempt, the one the last uniqueness check was asked about.
fell_back == pin_returned /\ last.calls[2].fallback
FallbackReturnsLastCandidate == fell_back => last.calls[2].pin = last.calls[1].pin

\* C7 as amended: the pin returned by the fallback is one more draw, made after the
\* 10th attempt and returned unchecked: the collaborator was asked 10 times (never,
\* when it is not initialised), the last time about the 10th candidate, which it
\* did not confirm.
FallbackDrawsAgain ==
    fell_back =>
        /\ last.calls[2].attempts = 10
        /\ last.calls[2].checks = (IF db THEN 10 ELSE 0)
        /\ last.calls[1].answer # "unique"
        /\ Len(last.calls[2].pin) = last.calls[2].length
        /\ \A i \in 1..Len(last.calls[2].pin) : last.calls[2].pin[i] \in PinAlphabet

\* the fallback returned a pin other than the 10th candidate
FallbackPinNeverChecked ==
    /\ fell_back
    /\ last.calls[2].pin # last.calls[1].pin
    /\ last.calls[2].checks = 10

\* C8 as claimed: when an upload creates a record, no other record of the
\* collection has its pin.
created == last.op = "add" /\ last.calls[1].answer = "ok"
created_pin == last.calls[1].doc_data.pin
PinUniqueAtCreation ==
    created =>
        \A i \in 1..(Len(FILES_COLLECTION) - 1) : FILES_COLLECTION[i].pin # created_pin

\* C8 as amended: when an upload creates a record with a pin the generator
\* returned from a confirming check (not from its fallback), none of the records
\* the collection held when that check was answered has the pin; a record another
\* upload added between the check and the insert may have it.
PinUniqueAmongChecked ==
    (created /\ ~last.calls[1].fallback) =>
        \A i \in 1..last.calls[1].seen : FILES_COLLECTION[i].pin # created_pin

\* a record was created with a confirmed pin while the collection held a record
\* when the check was answered
PinCreatedAfterCheck ==
    /\ created
    /\ ~last.calls[1].fallback
    /\ last.calls[1].seen >= 1
    /\ Len(FILES_COLLECTION) = last.calls[1].seen + 1

\* the step just taken left the session of every chat other than its own as it was
others_untouched == others(user_sessions, last.chat_id) = last.others

\* the step just taken delivered a document stored by the chat it answers
own_document ==
    \A i \in DOMAIN last.calls :
        (last.calls[i].fn = "get_file_by_pin" /\ last.calls[i].answer = "found") =>
            last.calls[i].data.chat_id = last.chat_id

\* every message of the step just taken goes to the chat of the update it handles
own_messages == \A i \in DOMAIN last.sent : last.sent[i].chat_id = last.chat_id

\* C11 as claimed: the processing of an update of a chat never creates, changes
\* or deletes the session of another chat, and what a chat is sent is what it
\* would be sent had the other chats sent nothing: in particular a chat is never
\* delivered a document that another chat stored.
CrossChatIsolation == others_untouched /\ own_messages /\ own_document

\* C11 as amended: the processing of an update of a chat never creates, changes
\* or deletes the session of another chat, and sends messages to that chat only;
\* the chats share the collection of stored files, so a pin lookup may deliver a
\* document that another chat stored.
CrossChatSessionIsolation == others_untouched /\ own_messages

\* a chat deleted its session by /cancel while the other chat kept its own
CancelledBesideSession ==
    /\ last.op = "handle_cancel"
    /\ last.before # {}
    /\ \E c \in Chats \ {last.chat_id} : c \in DOMAIN user_sessions

\* a collaborator call of the step just taken failed, or an exception left the
\* handler and was logged by process_update
FailureAnswers == {"error", "not_ok", "raised"}
failed ==
    \/ last.logged
    \/ \E i \in DOMAIN last.calls :
          \/ "answer" \in DOMAIN last.calls[i] /\ last.calls[i].answer \in FailureAnswers
          \/ "result" \in DOMAIN last.calls[i] /\ ~last.calls[i].result
    \/ \E i \in DOMAIN last.sent : last.sent[i].text = "ai_error"

\* C12: when the processing of an update ends with a step in which a collaborator
\* failed or an exception was raised, that step sent a message to the chat, the
\* chat has no session, and no exception was swallowed by process_update.
EngineNeverFailsSilently ==
    (failed /\ ended) =>
        /\ last.sent # <<>>
        /\ own_messages
        /\ now = {}
        /\ ~last.logged

\* a text is a valid recipient: all digits, at least 10 characters
valid_recipient(text) == all_digits(text) /\ Len(text) >= 10

\* C13: the relay is called only by the handling of a text received in
\* awaiting-body, with that text as the body and the recipient of the session as
\* the number, and the number is all digits and at least 10 characters long.
SendMessageOrdering ==
    /\ last.op = "handle_text_message" =>
          LET awaiting_body == {s \in last.before :
                                   s.command = "sendmsg" /\ s.state = "waiting_message"}
          IN  /\ tasks[last.task].pc = "send_message_via_api" <=> awaiting_body # {}
              /\ \A s \in awaiting_body :
                    /\ "phone" \in DOMAIN s
                    /\ tasks[last.task].phone = s.phone
                    /\ tasks[last.task].text = last.text
    /\ \A w \in Tasks :
          tasks[w].pc = "send_message_via_api" => valid_recipient(tasks[w].phone)
    /\ \A i \in DOMAIN last.calls :
          last.calls[i].fn = "send_message_via_api" =>
              /\ last.op = "send_message_via_api"
              /\ valid_recipient(last.calls[i].number)
              /\ last.calls[i].message_text = last.text

\* the relay was called with the recipient and the body the chat had sent
RelayCalled ==
    /\ last.op = "send_message_via_api"
    /\ last.calls[1].number = TxtPhone
    /\ last.calls[1].message_text # None
    /\ last.calls[1].result

\* the records of the collection that carry the pin a text stands for
records_of(text) ==
    {i \in DOMAIN FILES_COLLECTION : FILES_COLLECTION[i].pin = upper(text)}

\* the documents the step just taken sent
delivered == {i \in DOMAIN last.sent : last.sent[i].text = "document"}

\* the message i carries the bytes and the filename stored in record r
delivers(i, r) ==
    /\ Len(last.sent[i].arg) = 2
    /\ b64encode(last.sent[i].arg[1]) = FILES_COLLECTION[r].file_data
    /\ last.sent[i].arg[2] = FILES_COLLECTION[r].filename

\* C14 as claimed: a lookup of a pin delivers the bytes and the filename of the
\* record stored with that pin, and a lookup of a pin no record has sends the
\* 'not found' message and no document.
StoreRetrieveRoundTrip ==
    last.op = "get_file_by_pin" =>
        IF records_of(last.text) = {}
        THEN delivered = {} /\ last.sent = <<message(last.chat_id, "pin_not_found")>>
        ELSE /\ delivered = {1}
             /\ \A r \in records_of(last.text) : delivers(1, r)

\* C14 as amended: a lookup delivers a document only when the collaborator
\* returned a record; the document then carries exactly the bytes and the
\* filename of a record stored with the pin entered (upper-cased), which is the
\* uploaded file when no other record has that pin; when the collaborator fails,
\* or no record has the pin, the 'not found' message is sent and no document.
RetrieveDeliversStoredRecord ==
    last.op = "get_file_by_pin" =>
        LET found == {i \in DOMAIN last.calls : last.calls[i].answer = "found"}
        IN  IF found = {}
            THEN delivered = {} /\ last.sent = <<message(last.chat_id, "pin_not_found")>>
            ELSE /\ delivered = {1}
                 /\ \E r \in records_of(last.text) :
                       /\ delivers(1, r)
                       /\ last.calls[1].data = FILES_COLLECTION[r]
                 /\ last.calls[1].pin = upper(last.text)

\* a pin entered in lower case was looked up and the stored file was delivered
StoredFileRetrieved ==
    /\ last.op = "get_file_by_pin"
    /\ last.text = [i \in 1..PinLength |-> "a"]
    /\ delivered = {1}
    /\ last.sent[1].arg = <<(<<77>>), DefaultFileName>>
    /\ last.sent[2].text = "file_sent"

\* the steps each workflow declares
DeclaredStates ==
    [sendmsg      |-> {"waiting_phone", "waiting_message"},
     yt_download  |-> {"waiting_youtube_url"},
     download_url |-> {"waiting_download_url"},
     upload_file  |-> {"waiting_file_upload"},
     get_file     |-> {"waiting_pin"},
     ask_ai       |-> {"waiting_ai_query"}]

\* C15: every session of the store has the command of one of the six workflows
\* and a state among the steps of that command, and a send-message session in
\* awaiting-body holds a recipient that is all digits and at least 10 characters.
SessionWellFormed ==
    \A c \in DOMAIN user_sessions :
        LET s == user_sessions[c]
        IN  /\ {"state", "command"} \subseteq DOMAIN s
            /\ s.command \in DOMAIN DeclaredStates
            /\ s.state \in DeclaredStates[s.command]
            /\ s.state = "waiting_message" =>
                  /\ "phone" \in DOMAIN s
                  /\ valid_recipient(s.phone)

\* a send-message session is in awaiting-body with the recipient the chat sent
AwaitingBody ==
    \E c \in DOMAIN user_sessions :
        /\ user_sessions[c].state = "waiting_message"
        /\ user_sessions[c].phone = TxtPhone

\* the fixed reply to an update that belongs to no workflow
fixed_reply(op) ==
    CASE op = "handle_start"        -> "welcome"
      [] op = "unknown_command"     -> "unknown_command"
      [] op = "handle_text_message" -> "use_command"

\* C16: /start and an unrecognised command, for a chat with or without a session,
\* and a text for a chat without a session, are answered with their fixed reply
\* and leave the store as it was: no session is created, and a session in
\* progress keeps its command, its state and its fields.
NonWorkflowInputKeepsSessions ==
    \/ last.op \in {"handle_start", "unknown_command"}
    \/ last.op = "handle_text_message" /\ last.before = {}
    => /\ now = last.before
       /\ others_untouched
       /\ last.sent = <<message(last.chat_id, fixed_reply(last.op))>>
       /\ last.calls = <<>>
       /\ ended

\* /start came for a chat whose send-message session had collected a recipient
StartBesideRecipient ==
    /\ last.op = "handle_start"
    /\ \E s \in last.before : "phone" \in DOMAIN s
    /\ now = last.before

\* C17: a uniqueness check that fails with an error, or that finds Firestore not
\* initialised, counts as 'not unique': the generator goes on to its next attempt
\* (or to its fallback after the last one); a pin returned before the fallback
\* is the candidate the collaborator was asked about and answered, without error,
\* that no record has.
UniquenessCheckFailsClosed ==
    last.op = "generate_unique_pin" =>
        /\ last.calls[1].answer \in {"error", "uninitialised", "taken"} =>
              IF pin_returned THEN last.calls[2].fallback
              ELSE /\ tasks[last.task].pc = "generate_unique_pin"
                   /\ tasks[last.task].attempt >= 2
        /\ (pin_returned /\ ~last.calls[2].fallback) =>
              /\ last.calls[1].answer = "unique"
              /\ last.calls[2].pin = last.calls[1].pin
              /\ db
              /\ \A i \in DOMAIN FILES_COLLECTION :
                    FILES_COLLECTION[i].pin # last.calls[2].pin

\* a check failed with an error and the generator went on to another attempt
CheckErrorRetried ==
    /\ last.op = "generate_unique_pin"
    /\ last.calls[1].answer = "error"
    /\ ~pin_returned
    /\ tasks[last.task].attempt >= 2

\* the steps of handle_document
UploadOps == {"handle_document", "requests_get", "generate_unique_pin", "add", "except_del"}

\* the step just taken told the chat a pin
pins_told == {i \in DOMAIN last.sent : last.sent[i].text = "upload_ok"}

\* the step just taken had Firestore accept a record
record_added ==
    last.op = "add" /\ last.calls[1].answer = "ok"

\* record r holds the bytes (base64) and the file name of a document sent to the bot
holds_document(r) ==
    \E doc \in Documents :
        /\ r.file_data = b64encode(doc.content)
        /\ r.filename = (IF "file_name" \in DOMAIN doc THEN doc.file_name
                         ELSE DefaultFileName)

\* C18: a pin is told to the chat only by the step in which Firestore accepted a
\* record with that pin, the bytes and the file name of the document, and the chat
\* as owner; a step in which the fetch or the store failed tells no pin, adds no
\* record and sends a failure message.
PinIssuedForRecord ==
    /\ pins_told # {} => record_added
    /\ record_added =>
          /\ Len(FILES_COLLECTION) = last.records + 1
          /\ LET r == FILES_COLLECTION[Len(FILES_COLLECTION)]
             IN  /\ r = last.calls[1].doc_data
                 /\ r.chat_id = last.chat_id
                 /\ holds_document(r)
                 /\ pins_told = {1}
                 /\ last.sent[1].arg = r.pin
                 /\ last.sent[1].chat_id = r.chat_id
    /\ (last.op \in UploadOps /\ ~record_added) =>
          /\ Len(FILES_COLLECTION) = last.records
          /\ pins_told = {}
    /\ (last.op \in {"requests_get", "add"} /\ failed) =>
          \E i \in DOMAIN last.sent :
              last.sent[i].text \in {"file_info_error", "upload_failed"}
    /\ (last.op = "requests_get" /\ ~db /\ ~failed) =>
          last.sent[1].text = "upload_failed"

\* the chat was told the pin of the record that holds its document
PinToldForOwnRecord ==
    /\ record_added
    /\ pins_told = {1}
    /\ FILES_COLLECTION[Len(FILES_COLLECTION)].chat_id = 101
    /\ FILES_COLLECTION[Len(FILES_COLLECTION)].pin = last.sent[1].arg

\* C19: a text or a document that arrives for a chat while the terminal action
\* of that chat's session is under way is handled as an update of a chat without
\* a session: it gets the 'use a command' reply and starts no collaborator call.
DuplicateRunsOnce ==
    /\ last.op \in {"handle_text_message", "handle_document"}
    /\ \E v \in Tasks \ {last.task} :
          tasks[v].pc # "idle" /\ tasks[v].chat_id = last.chat_id
    => /\ ended
       /\ last.sent = <<message(last.chat_id,
                                IF last.op = "handle_document" THEN "use_upload_file"
                                ELSE "use_command")>>

\* the messages that tell the chat how its upload ended
OutcomeTexts == {"upload_ok", "upload_failed", "file_info_error"}
outcomes == {i \in DOMAIN last.sent : last.sent[i].text \in OutcomeTexts}

\* C20: a step of handle_document sends at most one outcome message, and the
\* step that ends the handling of a document received in awaiting-file with a
\* collaborator answer sends exactly one: the pin or a failure message, never a
\* failure message after the pin.
OneOutcomePerUpload ==
    last.op \in UploadOps =>
        /\ Cardinality(outcomes) <= 1
        /\ (last.calls # <<>> /\ last.op \in {"requests_get", "add"}
               /\ tasks[last.task].pc # "generate_unique_pin") =>
              Cardinality(outcomes) = 1

\* the update just handled was of the wrong kind for the session of its chat: a
\* text in awaiting-file, or a document in any other state
wrong_kind ==
    \/ /\ last.op = "handle_text_message"
       /\ \E s \in last.before : s.state = "waiting_file_upload"
    \/ /\ last.op = "handle_document"
       /\ last.before # {}
       /\ \A s \in last.before : s.state # "waiting_file_upload"

\* C21: a text for a chat in file-upload awaiting-file, and a document for a chat
\* whose session is in any other state, leave the session with its command, its
\* state and its fields, call no collaborator and end the handling of the update.
WrongKindKeepsSession ==
    wrong_kind =>
        /\ now = last.before
        /\ others_untouched
        /\ last.calls = <<>>
        /\ ended

\* a text came for a chat in awaiting-file, after an earlier update, while the
\* other chat's send-message session held a recipient; the session is as it was
TextWhileAwaitingFile ==
    /\ last.op = "handle_text_message"
    /\ last.before = {[state |-> "waiting_file_upload", command |-> "upload_file"]}
    /\ now = last.before
    /\ received >= 2
    /\ \E c \in DOMAIN last.others : "phone" \in DOMAIN last.others[c]

====
